---- MODULE Spec2Model ----
(***************************************************************************)
(* A model of the UUID decoder of src/main.go: the parser FromString, the  *)
(* field accessors Version, Variant, MaskVariant, the node and payload     *)
(* extractors MacAddr and DataInfo, the timestamp reconstruction TimeInfo, *)
(* the renderer String and the report builder Info.                        *)
(*                                                                         *)
(* Go's fixed-width integers do not fit TLC's 32-bit integers, so every    *)
(* integer wider than a byte is a little-endian sequence of limbs in       *)
(* 0..255: a uint16 has 2 limbs, a uint32 has 4, an int64 (two's           *)
(* complement) has 8.  Truncating to the width is the wrap-around of the   *)
(* Go type.  A string is a sequence of one-character strings.              *)
(***************************************************************************)
EXTENDS Integers, Sequences, FiniteSets, TLC

VARIABLES
    u,      \* the UUIDByte variable of the caller: its bytes (<<>> is nil)
    err,    \* how the last FromString call ended
    op,     \* the last operation called
    ret,    \* what the last operation returned
    src,    \* the argument of the last FromString call
    orig,   \* the caller's own copy of the buffer it built u from
    writes  \* writes the caller made into the slice ret holds

vars == <<u, err, op, ret, src, orig, writes>>

----------------------------------------------------------------------------
(* Natural numbers of any size: little-endian limbs, base 256.             *)

Max(a, b) == IF a >= b THEN a ELSE b

LimbAt(a, i) == IF i <= Len(a) THEN a[i] ELSE 0

\* a resized to exactly w limbs: the value modulo 256^w
Trunc(a, w) == [i \in 1..w |-> LimbAt(a, i)]

RECURSIVE AddC(_, _, _)
AddC(a, b, c) ==
    IF a = <<>> /\ b = <<>>
    THEN IF c = 0 THEN <<>> ELSE <<c>>
    ELSE LET s == LimbAt(a, 1) + LimbAt(b, 1) + c
         IN  <<s % 256>> \o AddC(IF a = <<>> THEN a ELSE Tail(a),
                                  IF b = <<>> THEN b ELSE Tail(b), s \div 256)

NatAdd(a, b) == AddC(a, b, 0)

RECURSIVE MulC(_, _, _)
MulC(a, k, c) ==
    IF a = <<>>
    THEN IF c = 0 THEN <<>> ELSE <<c % 256>> \o MulC(a, k, c \div 256)
    ELSE LET p == Head(a) * k + c
         IN  <<p % 256>> \o MulC(Tail(a), k, p \div 256)

\* a * k for a small k (k < 2^20)
NatMulSmall(a, k) == MulC(a, k, 0)

RECURSIVE DivC(_, _)
DivC(a, k) ==
    IF a = <<>>
    THEN [q |-> <<>>, r |-> 0]
    ELSE LET hi == DivC(Tail(a), k)
             x  == hi.r * 256 + Head(a)
         IN  [q |-> <<x \div k>> \o hi.q, r |-> x % k]

\* quotient and remainder of a by a small k (k < 2^20)
NatDivSmall(a, k) == DivC(a, k)

RECURSIVE CmpFrom(_, _, _)
CmpFrom(a, b, i) ==
    IF i = 0 THEN 0
    ELSE IF LimbAt(a, i) < LimbAt(b, i) THEN -1
    ELSE IF LimbAt(a, i) > LimbAt(b, i) THEN 1
    ELSE CmpFrom(a, b, i - 1)

\* -1, 0 or 1 as a < b, a = b, a > b (as numbers: high zero limbs ignored)
NatCmp(a, b) == CmpFrom(a, b, Max(Len(a), Len(b)))

NatEq(a, b) == NatCmp(a, b) = 0

\* a * 256^n
NatShiftLimbs(a, n) == [i \in 1..n |-> 0] \o a

RECURSIVE NatFromInt(_)
NatFromInt(n) == IF n = 0 THEN <<>> ELSE <<n % 256>> \o NatFromInt(n \div 256)

\* 2^n
NatPow2(n) == NatShiftLimbs(<<2 ^ (n % 8)>>, n \div 8)

RECURSIVE NatSum(_)
NatSum(s) == IF s = <<>> THEN <<>> ELSE NatAdd(Head(s), NatSum(Tail(s)))

----------------------------------------------------------------------------
(* Go's int64: 8 limbs, two's complement.                                  *)

Int64(a) == Trunc(a, 8)

IsNeg64(a) == a[8] >= 128

Add64(a, b) == Int64(NatAdd(a, b))

Neg64(a) == Int64(NatAdd([i \in 1..8 |-> 255 - a[i]], <<1>>))

Sub64(a, b) == Add64(a, Neg64(b))

Mul64Small(a, k) == Int64(NatMulSmall(a, k))

Less64(a, b) ==
    IF IsNeg64(a) # IsNeg64(b) THEN IsNeg64(a) ELSE NatCmp(a, b) < 0

\* the absolute value of an int64, as a natural number
Abs64(a) == IF IsNeg64(a) THEN Neg64(a) ELSE a

\* Go's / and % by a small positive constant: the quotient truncates toward
\* zero and the remainder takes the sign of the dividend
Div64Small(a, k) ==
    LET d == NatDivSmall(Abs64(a), k)
    IN  IF IsNeg64(a) THEN [q |-> Neg64(Int64(d.q)), r |-> 0 - d.r]
                      ELSE [q |-> Int64(d.q), r |-> d.r]

Zero64 == Int64(<<>>)

----------------------------------------------------------------------------
(* Bytes and bit operations.                                               *)

Byte == 0..255

RECURSIVE BitAnd(_, _)
BitAnd(a, b) ==
    IF a = 0 \/ b = 0 THEN 0
    ELSE (a % 2) * (b % 2) + 2 * BitAnd(a \div 2, b \div 2)

\* b >> n
Shr(b, n) == b \div (2 ^ n)

\* Go's u[i] and u[lo:hi] (0-based) on a TLA+ sequence (1-based)
At(b, i) == b[i + 1]
Slice(b, lo, hi) == SubSeq(b, lo + 1, hi)
InRange(b, i) == i >= 0 /\ i < Len(b)

\* make([]byte, n)
MakeBytes(n) == [i \in 1..n |-> 0]

secondFieldIdx == 4
versionIdx == 6
variantIdx == 8
macIdx == 10
uuidLength == 16
macLength == 6

----------------------------------------------------------------------------
(* Strings: sequences of one-character strings.  encoding/hex and the      *)
(* functions of package strings that the decoder calls.                    *)

hextable == <<"0", "1", "2", "3", "4", "5", "6", "7",
              "8", "9", "a", "b", "c", "d", "e", "f">>

LowerLetters == <<"a", "b", "c", "d", "e", "f", "g", "h", "i", "j", "k", "l", "m",
                  "n", "o", "p", "q", "r", "s", "t", "u", "v", "w", "x", "y", "z">>
UpperLetters == <<"A", "B", "C", "D", "E", "F", "G", "H", "I", "J", "K", "L", "M",
                  "N", "O", "P", "Q", "R", "S", "T", "U", "V", "W", "X", "Y", "Z">>

\* unicode.ToUpper on one character
ToUpperChar(c) ==
    IF \E i \in 1..26 : LowerLetters[i] = c
    THEN UpperLetters[CHOOSE i \in 1..26 : LowerLetters[i] = c]
    ELSE c

\* strings.ToUpper
ToUpper(s) == [i \in 1..Len(s) |-> ToUpperChar(s[i])]

\* hex.EncodeToString: two lowercase digits a byte, high nibble first
EncodeToString(b) ==
    [i \in 1..(2 * Len(b)) |->
        IF i % 2 = 1 THEN hextable[Shr(b[(i + 1) \div 2], 4) + 1]
                     ELSE hextable[BitAnd(b[i \div 2], 15) + 1]]

\* hex's reverseHexTable: the digit's value, 255 for a character that is none
FromHexChar(c) ==
    IF \E i \in 1..16 : hextable[i] = c
    THEN (CHOOSE i \in 1..16 : hextable[i] = c) - 1
    ELSE IF \E i \in 11..16 : ToUpperChar(hextable[i]) = c
    THEN (CHOOSE i \in 11..16 : ToUpperChar(hextable[i]) = c) - 1
    ELSE 255

\* hex.DecodedLen
DecodedLen(x) == x \div 2

\* hex.Decode(dst, s): the loop over the pairs from pair i (0-based) on, then
\* the check of an odd length.  Returns the bytes written, the count and the
\* error.
RECURSIVE DecodeFrom(_, _, _)
DecodeFrom(dst, s, i) ==
    IF 2 * i + 1 < Len(s)
    THEN LET a == FromHexChar(s[2 * i + 1])
             b == FromHexChar(s[2 * i + 2])
         IN  IF a > 15 \/ b > 15
             THEN [dst |-> dst, n |-> i, err |-> "InvalidByteError"]
             ELSE DecodeFrom([dst EXCEPT ![i + 1] = a * 16 + b], s, i + 1)
    ELSE IF Len(s) % 2 = 1
    THEN IF FromHexChar(s[Len(s)]) > 15
         THEN [dst |-> dst, n |-> i, err |-> "InvalidByteError"]
         ELSE [dst |-> dst, n |-> i, err |-> "ErrLength"]
    ELSE [dst |-> dst, n |-> i, err |-> "nil"]

Decode(dst, s) == DecodeFrom(dst, s, 0)

\* strings.Replace(s, old, "", -1) for a one-character old
RECURSIVE RemoveAll(_, _)
RemoveAll(s, c) ==
    IF s = <<>> THEN <<>>
    ELSE IF Head(s) = c THEN RemoveAll(Tail(s), c)
    ELSE <<Head(s)>> \o RemoveAll(Tail(s), c)

HasPrefix(s, p) == Len(s) >= Len(p) /\ SubSeq(s, 1, Len(p)) = p
HasSuffix(s, p) == Len(s) >= Len(p) /\ SubSeq(s, Len(s) - Len(p) + 1, Len(s)) = p

\* strings.TrimPrefix and strings.TrimSuffix
TrimPrefix(s, p) == IF HasPrefix(s, p) THEN SubSeq(s, Len(p) + 1, Len(s)) ELSE s
TrimSuffix(s, p) == IF HasSuffix(s, p) THEN SubSeq(s, 1, Len(s) - Len(p)) ELSE s

UrnPrefix == <<"u", "r", "n", ":", "u", "u", "i", "d", ":">>

----------------------------------------------------------------------------
(* The parser.                                                             *)

NoError == [kind |-> "nil", cause |-> "nil", n |-> 0]

RECURSIVE RemoveFirst(_, _)
RemoveFirst(s, c) ==
    IF s = <<>> THEN <<>>
    ELSE IF Head(s) = c THEN Tail(s)
    ELSE <<Head(s)>> \o RemoveFirst(Tail(s), c)

\* strings.Replace with a count of 1 in place of -1
StripFirstDash(text) == RemoveFirst(text, "-")

\* the text FromString decodes: dashes removed, then the brace pair or the
\* urn:uuid: prefix.  Called only on a text with a character left after the
\* dashes are removed.
StripDashes(text) == RemoveAll(text, "-")

StripWrapper(s) ==
    IF s[1] = "{"
    THEN TrimSuffix(TrimPrefix(s, <<"{">>), <<"}">>)
    ELSE TrimPrefix(s, UrnPrefix)

\* FromString on the variable holding cur: the variable afterwards and the
\* error returned.  kind "panic": s[0] on an empty s is an index out of range,
\* raised before the variable is assigned.
FromStringResult(cur, text) ==
    LET s0 == StripDashes(text)
    IN  IF Len(s0) = 0
        THEN [u |-> cur, err |-> [kind |-> "panic", cause |-> "index out of range", n |-> 0]]
        ELSE LET s == StripWrapper(s0)
                 d == Decode(MakeBytes(DecodedLen(Len(s))), s)
             IN  IF d.err # "nil"
                 THEN [u |-> d.dst, err |-> [kind |-> "decode", cause |-> d.err, n |-> d.n]]
                 ELSE IF d.n # uuidLength
                 THEN [u |-> d.dst, err |-> [kind |-> "length", cause |-> "nil", n |-> d.n]]
                 ELSE [u |-> d.dst, err |-> NoError]

----------------------------------------------------------------------------
(* The renderer.                                                           *)

FieldEnds == <<secondFieldIdx, versionIdx, variantIdx, macIdx, uuidLength>>

\* the loop of String from field i (1-based) on, lastIdx being the end of
\* the field before
RECURSIVE StringFrom(_, _, _)
StringFrom(b, i, lastIdx) ==
    IF i > Len(FieldEnds) THEN <<>>
    ELSE (IF i > 1 THEN <<"-">> ELSE <<>>)
         \o EncodeToString(Slice(b, lastIdx, FieldEnds[i]))
         \o StringFrom(b, i + 1, FieldEnds[i])

String(b) == ToUpper(StringFrom(b, 1, 0))

----------------------------------------------------------------------------
(* The field accessors.  Each is called on a buffer long enough for the    *)
(* indexes it reads; the actions below turn an index out of range into a   *)
(* panic.                                                                  *)

\* UUIDVersion(u[versionIdx] >> 4)
Version(b) == Shr(At(b, versionIdx), 4)

\* Variant with the Microsoft range one nibble too wide: v <= 0x0e
VariantWideMicrosoft(b) ==
    LET v == Shr(At(b, variantIdx), 4)
    IN  IF v <= 7 THEN "VariantNCS"
        ELSE IF v >= 8 /\ v <= 11 THEN "VariantRFC4122"
        ELSE IF v >= 12 /\ v <= 14 THEN "VariantMicrosoft"
        ELSE "VariantFuture"

Variant(b) ==
    LET v == Shr(At(b, variantIdx), 4)
    IN  IF v <= 7 THEN "VariantNCS"
        ELSE IF v >= 8 /\ v <= 11 THEN "VariantRFC4122"
        ELSE IF v >= 12 /\ v <= 13 THEN "VariantMicrosoft"
        ELSE "VariantFuture"

\* MaskVariant without the three-bit case
MaskVariantTwoCases(b) ==
    LET x == At(b, variantIdx)
    IN  IF BitAnd(x, 128) = 0 THEN BitAnd(x, 127) ELSE BitAnd(x, 63)

MaskVariant(b) ==
    LET x == At(b, variantIdx)
    IN  IF BitAnd(x, 128) = 0 THEN BitAnd(x, 127)
        ELSE IF BitAnd(x, 192) = 128 THEN BitAnd(x, 63)
        ELSE BitAnd(x, 31)

\* copy(dst, from): the first min(len(dst), len(from)) elements
Copy(dst, from) ==
    [i \in 1..Len(dst) |-> IF i <= Len(from) THEN from[i] ELSE dst[i]]

\* a returned slice: arr says whose backing array it points into, its own
\* ("own") or that of the UUIDByte it was taken from ("u", from offset off)
OwnSlice(bytes) == [kind |-> "bytes", arr |-> "own", off |-> 0, val |-> bytes]
NilSlice == [kind |-> "nil"]

\* for version 1 and 2 only (the source's comment)
MacAddr(b) ==
    IF Version(b) <= 2
    THEN OwnSlice(Copy(MakeBytes(macLength), Slice(b, macIdx, Len(b))))
    ELSE NilSlice

DataInfo(b) ==
    LET c  == Copy(MakeBytes(Len(b)), b)
        c1 == [c EXCEPT ![versionIdx + 1] = BitAnd(c[versionIdx + 1], 15)]
    IN  OwnSlice([c1 EXCEPT ![variantIdx + 1] = MaskVariant(b)])

----------------------------------------------------------------------------
(* The timestamp reconstruction.                                           *)

UUITTimeUnit == 100

\* (1<<63 - 1) / 100, an untyped constant
MaxDurationUnit == Int64(NatDivSmall(Sub64(Int64(NatPow2(63)), Int64(<<1>>)), UUITTimeUnit).q)

\* a time.Time: seconds since January 1 of year 1 (an int64) and nanoseconds
\* within the second.  time.Date(1582, 10, 15, 0, 0, 0, 0, time.UTC) is
\* 49916304000 seconds after it.
UUIDTimeBase == [sec |-> Int64(NatMulSmall(NatFromInt(49916304), 1000)), nsec |-> 0]

\* d / 1e9 and d % 1e9 of a Duration d (an int64 of nanoseconds)
DurationSplit(d) ==
    LET a == Div64Small(d, 1000)
        b == Div64Small(a.q, 1000)
        c == Div64Small(b.q, 1000)
    IN  [sec |-> c.q, nsec |-> a.r + 1000 * b.r + 1000000 * c.r]

\* time.Time.Add
TimeAdd(t, d) ==
    LET s    == DurationSplit(d)
        nsec == t.nsec + s.nsec
    IN  IF nsec >= 1000000000
        THEN [sec |-> Add64(t.sec, Add64(s.sec, Int64(<<1>>))), nsec |-> nsec - 1000000000]
        ELSE IF nsec < 0
        THEN [sec |-> Add64(t.sec, Sub64(s.sec, Int64(<<1>>))), nsec |-> nsec + 1000000000]
        ELSE [sec |-> Add64(t.sec, s.sec), nsec |-> nsec]

\* the loop reading time low: bytes i..3, m the place value (a uint32)
RECURSIVE TimeLowFrom(_, _, _, _, _)
TimeLowFrom(b, le, i, m, timeLow) ==
    IF i >= secondFieldIdx THEN timeLow
    ELSE IF le
    THEN TimeLowFrom(b, le, i + 1, Trunc(NatShiftLimbs(m, 1), 4),
                     Trunc(NatAdd(timeLow, NatMulSmall(m, At(b, i))), 4))
    ELSE TimeLowFrom(b, le, i + 1, m,
                     Trunc(NatAdd(NatShiftLimbs(timeLow, 1), <<At(b, i)>>), 4))

TimeLow(b, le) == TimeLowFrom(b, le, 0, Trunc(<<1>>, 4), Trunc(<<>>, 4))

\* a uint16
TimeMid(b, le) ==
    IF le
    THEN Trunc(NatAdd(<<At(b, secondFieldIdx)>>,
                      NatShiftLimbs(<<At(b, secondFieldIdx + 1)>>, 1)), 2)
    ELSE Trunc(NatAdd(NatShiftLimbs(<<At(b, secondFieldIdx)>>, 1),
                      <<At(b, secondFieldIdx + 1)>>), 2)

\* a uint16; in Go << binds tighter than +
TimeHigh(b, le) ==
    IF le
    THEN Trunc(NatAdd(<<BitAnd(At(b, versionIdx), 15)>>,
                      NatMulSmall(<<At(b, versionIdx + 1)>>, 16)), 2)
    ELSE Trunc(NatAdd(NatShiftLimbs(<<BitAnd(At(b, versionIdx), 15)>>, 1),
                      <<At(b, versionIdx + 1)>>), 2)

\* x << (8 * n) on an int64
Shl64Limbs(x, n) == Int64(NatShiftLimbs(x, n))

\* the switch with time low counted in version 2 as in version 1
TimeUnitsLowInBoth(b, le) ==
    LET lo  == Int64(TimeLow(b, le))
        mid == Shl64Limbs(Int64(TimeMid(b, le)), 4)
        hi  == Shl64Limbs(Int64(TimeHigh(b, le)), 6)
    IN  IF Version(b) \in {1, 2} THEN Add64(Add64(lo, mid), hi) ELSE Zero64

\* the switch on the version that sets timeUnits (an int64)
TimeUnits(b, le) ==
    LET lo  == Int64(TimeLow(b, le))
        mid == Shl64Limbs(Int64(TimeMid(b, le)), 4)
        hi  == Shl64Limbs(Int64(TimeHigh(b, le)), 6)
    IN  IF Version(b) = 1 THEN Add64(Add64(lo, mid), hi)
        ELSE IF Version(b) = 2 THEN Add64(mid, hi)
        ELSE Zero64

\* the addition in one step, with no loop: Duration(timeUnits) * UUITTimeUnit
\* wraps once timeUnits exceeds MaxDurationUnit
AddInOneStep(theTime, timeUnits, adds) ==
    IF ~Less64(Zero64, timeUnits)
    THEN [theTime |-> theTime, adds |-> adds]
    ELSE LET d == Mul64Small(timeUnits, UUITTimeUnit)
         IN  [theTime |-> TimeAdd(theTime, d),
              adds |-> Append(adds, [units |-> timeUnits, d |-> d])]

\* the loop adding timeUnits to theTime; adds lists what it added: the
\* units of each step and the Duration made of them
RECURSIVE AddChunks(_, _, _)
AddChunks(theTime, timeUnits, adds) ==
    IF ~Less64(Zero64, timeUnits)
    THEN [theTime |-> theTime, adds |-> adds]
    ELSE IF Less64(MaxDurationUnit, timeUnits)
    THEN LET d == Mul64Small(MaxDurationUnit, UUITTimeUnit)
         IN  AddChunks(TimeAdd(theTime, d), Sub64(timeUnits, MaxDurationUnit),
                       Append(adds, [units |-> MaxDurationUnit, d |-> d]))
    ELSE LET d == Mul64Small(timeUnits, UUITTimeUnit)
         IN  AddChunks(TimeAdd(theTime, d), Zero64,
                       Append(adds, [units |-> timeUnits, d |-> d]))

\* TimeInfo's results, with the locals the time was computed from
TimeInfo(b, le) ==
    LET version == Version(b)
        ticks   == TimeUnits(b, le)
        loop    == AddChunks(UUIDTimeBase, ticks, <<>>)
        clk     == MaskVariant(b)
    IN  [kind     |-> "TimeInfo",
         le       |-> le,
         theTime  |-> loop.theTime,
         clkSeq   |-> IF version = 1 THEN clk * 256 + At(b, variantIdx + 1) ELSE clk,
         domain   |-> IF version = 2 THEN At(b, variantIdx + 1) ELSE 0,
         localID  |-> IF version = 2 THEN Int64(TimeLow(b, le)) ELSE Zero64,
         timeLow  |-> TimeLow(b, le),
         timeMid  |-> TimeMid(b, le),
         timeHigh |-> TimeHigh(b, le),
         ticks    |-> ticks,
         adds     |-> loop.adds]

\* Info's report, field by field: the lines it prints for the version
Info(b) ==
    LET version == Version(b)
        head == [uuid |-> String(b), variant |-> Variant(b), version |-> version]
    IN  IF version \in {1, 2}
        THEN [kind |-> "Info", head |-> head, mac |-> MacAddr(b),
              time |-> TimeInfo(b, FALSE)]
        ELSE IF version \in {3, 4, 5}
        THEN [kind |-> "Info", head |-> head,
              name |-> IF version = 4 THEN "Random" ELSE "Hash",
              data |-> DataInfo(b)]
        ELSE [kind |-> "Info", head |-> head]

----------------------------------------------------------------------------
(* Bounds and inputs.                                                      *)

\* writes the caller makes into one returned slice
MaxWrites == 1
\* characters cut from, or added to, a well-formed text
MaxCut == 2
\* the byte values tried for the bytes no claim fixes: Grid + 1 values
\* spread over 0..255
Grid == 2

GridBytes == {(i * 255) \div Grid : i \in 0..Grid}

\* sixteen distinct bytes starting at k
Pattern(k) == [i \in 1..uuidLength |-> (k + 17 * (i - 1)) % 256]

SetByte(b, i, v) == [b EXCEPT ![i + 1] = v]

\* the buffers of the demonstration in main, by version nibble
DemoUUID(v) ==
    <<139, 228, 223, 97, 147, 202, v * 16 + 1, 210, 170, 13, 0, 224, 152, 3, 43, 140>>
NilUUID == MakeBytes(uuidLength)

ParseBuffers == {DemoUUID(1), DemoUUID(4), NilUUID}

Repeat(c, n) == [i \in 1..n |-> c]
Dashed(b) == StringFrom(b, 1, 0)

\* the texts given to FromString: every accepted form of each buffer, the
\* forms with one brace only, texts too short, too long or with a character
\* that is no hex digit, and the texts with nothing to decode
WellFormed(b) ==
    { Dashed(b), EncodeToString(b), String(b),
      <<"{">> \o Dashed(b) \o <<"}">>,
      UrnPrefix \o Dashed(b) }
Malformed(b) ==
    { <<"{">> \o EncodeToString(b),
      EncodeToString(b) \o <<"}">>,
      <<"{">> \o UrnPrefix \o EncodeToString(b) \o <<"}">>,
      [Dashed(b) EXCEPT ![2] = "g"],
      [Dashed(b) EXCEPT ![Len(Dashed(b))] = "g"] }
    \cup { SubSeq(Dashed(b), 1, Len(Dashed(b)) - k) : k \in 1..MaxCut }
    \cup { Dashed(b) \o Repeat("0", k) : k \in 1..MaxCut }
Degenerate ==
    { <<>>, <<"{">>, <<"{", "}">>, <<"}">>, UrnPrefix,
      <<"n", "o", "t", "-", "a", "-", "u", "u", "i", "d">> }
    \cup { Repeat("-", k) : k \in 1..MaxCut }
Inputs ==
    UNION { WellFormed(b) \cup Malformed(b) : b \in ParseBuffers } \cup Degenerate

----------------------------------------------------------------------------
(* The operations.                                                         *)

Panic == [kind |-> "panic"]
None == [kind |-> "none"]

\* what every call but FromString leaves alone
Kept == writes' = 0 /\ UNCHANGED <<u, err, src, orig>>

FromString(text) ==
    LET r == FromStringResult(u, text)
    IN  /\ u' = r.u
        /\ err' = r.err
        /\ src' = text
        /\ op' = "FromString"
        /\ ret' = None
        /\ writes' = 0
        /\ UNCHANGED orig

CallString ==
    /\ op' = "String"
    /\ ret' = IF Len(u) >= uuidLength THEN [kind |-> "string", val |-> String(u)] ELSE Panic
    /\ Kept

CallVersion ==
    /\ op' = "Version"
    /\ ret' = IF InRange(u, versionIdx) THEN [kind |-> "version", val |-> Version(u)]
            ELSE Panic
    /\ Kept

CallVariant ==
    /\ op' = "Variant"
    /\ ret' = IF InRange(u, variantIdx) THEN [kind |-> "variant", val |-> Variant(u)]
            ELSE Panic
    /\ Kept

CallMaskVariant ==
    /\ op' = "MaskVariant"
    /\ ret' = IF InRange(u, variantIdx) THEN [kind |-> "byte", val |-> MaskVariant(u)]
            ELSE Panic
    /\ Kept

CallMacAddr ==
    /\ op' = "MacAddr"
    /\ ret' = IF ~InRange(u, versionIdx) THEN Panic
            ELSE IF Version(u) <= 2 /\ Len(u) < macIdx THEN Panic
            ELSE MacAddr(u)
    /\ Kept

CallTimeInfo(le) ==
    /\ op' = "TimeInfo"
    /\ ret' = IF ~InRange(u, variantIdx) THEN Panic
            ELSE IF Version(u) \in {1, 2} /\ ~InRange(u, variantIdx + 1) THEN Panic
            ELSE TimeInfo(u, le)
    /\ Kept

CallDataInfo ==
    /\ op' = "DataInfo"
    /\ ret' = IF InRange(u, variantIdx) THEN DataInfo(u) ELSE Panic
    /\ Kept

CallInfo ==
    /\ op' = "Info"
    /\ ret' = IF Len(u) >= uuidLength THEN Info(u) ELSE Panic
    /\ Kept

\* the caller writes 255 - x over element i (0-based), holding x, of the
\* slice it was returned
WriteRet(i) ==
    /\ ret.kind = "bytes"
    /\ writes < MaxWrites
    /\ InRange(ret.val, i)
    /\ LET v == 255 - At(ret.val, i)
       IN  /\ ret' = [ret EXCEPT !.val = SetByte(ret.val, i, v)]
           /\ u' = IF ret.arr = "u" THEN SetByte(u, ret.off + i, v) ELSE u
    /\ writes' = writes + 1
    /\ UNCHANGED <<err, op, src, orig>>

Accessors ==
    \/ CallString
    \/ CallVersion
    \/ CallVariant
    \/ CallMaskVariant
    \/ CallMacAddr
    \/ \E le \in BOOLEAN : CallTimeInfo(le)
    \/ CallDataInfo
    \/ CallInfo

----------------------------------------------------------------------------
(* The program: a nil UUIDByte variable, parsed and read in any order.     *)

Init ==
    /\ u = <<>>
    /\ err = [kind |-> "none", cause |-> "nil", n |-> 0]
    /\ op = "none"
    /\ ret = None
    /\ src = <<>>
    /\ orig = <<>>
    /\ writes = 0

Next ==
    \/ \E text \in Inputs : FromString(text)
    \/ Accessors
    \/ \E i \in 0..(uuidLength - 1) : WriteRet(i)

Spec == Init /\ [][Next]_vars

----------------------------------------------------------------------------
(* The pure functions, each applied to buffers the caller builds from raw  *)
(* bytes (a UUIDByte is a []byte): orig keeps the caller's copy.           *)

Built(buffers) ==
    /\ u \in buffers
    /\ orig = u
    /\ err = [kind |-> "none", cause |-> "nil", n |-> 0]
    /\ op = "none"
    /\ ret = None
    /\ src = <<>>
    /\ writes = 0

\* every version nibble with every byte 8, over a few fillings of the rest
GridBuffers == {Pattern(g) : g \in GridBytes}
FieldBuffers ==
    { SetByte(SetByte(b, versionIdx, ver * 16 + BitAnd(At(b, versionIdx), 15)),
              variantIdx, b8) :
        b \in GridBuffers, ver \in 0..15, b8 \in Byte }

InitFields == Built(FieldBuffers)

NextFields ==
    \/ CallVersion
    \/ CallVariant
    \/ CallMaskVariant
    \/ CallMacAddr
    \/ CallDataInfo

SpecFields == InitFields /\ [][NextFields]_vars

\* the first eight bytes that hold a tick count t (an int64 below 2^60) in
\* the big-endian layout, under version nibble ver
TicksBytes(t, ver) == <<t[4], t[3], t[2], t[1], t[6], t[5], ver * 16 + t[8], t[7]>>

\* tick counts around the largest single step, and the extremes
EdgeTicks ==
    { Zero64, Int64(<<1>>),
      Sub64(MaxDurationUnit, Int64(<<1>>)), MaxDurationUnit,
      Add64(MaxDurationUnit, Int64(<<1>>)),
      Mul64Small(MaxDurationUnit, 2), Add64(Mul64Small(MaxDurationUnit, 2), Int64(<<1>>)),
      Mul64Small(MaxDurationUnit, 12),
      Sub64(Int64(NatPow2(60)), Int64(<<1>>)) }

TimeVersions == {1, 2, 4}

TimeFields ==
    { TicksBytes(t, ver) : t \in EdgeTicks, ver \in TimeVersions }
    \cup { <<a, 17, 34, b, 51, c, ver * 16 + n, d>> :
             a \in GridBytes, b \in GridBytes, c \in GridBytes, d \in GridBytes,
             n \in {0, 15}, ver \in TimeVersions }

TimeBuffers == { f \o SubSeq(Pattern(0), 9, uuidLength) : f \in TimeFields }

InitTime == Built(TimeBuffers)

NextTime == \E le \in BOOLEAN : CallTimeInfo(le)

SpecTime == InitTime /\ [][NextTime]_vars

\* rendering, then parsing what was rendered
RoundTripBuffers == {Pattern(k) : k \in Byte} \cup ParseBuffers \cup GridBuffers

InitRoundTrip == Built(RoundTripBuffers)

NextRoundTrip ==
    \/ CallString
    \/ op = "String" /\ ret.kind = "string" /\ FromString(ret.val)

SpecRoundTrip == InitRoundTrip /\ [][NextRoundTrip]_vars

----------------------------------------------------------------------------
(* The properties.                                                         *)

IsHexDigit(c) ==
    c \in {"0", "1", "2", "3", "4", "5", "6", "7", "8", "9",
           "a", "b", "c", "d", "e", "f", "A", "B", "C", "D", "E", "F"}

\* the text the claims call s: the dashes removed, then the brace pair or
\* the leading urn:uuid:
NotDash(c) == c # "-"
NoDashes(text) == SelectSeq(text, NotDash)

Stripped(text) ==
    LET s0 == NoDashes(text)
        n  == Len(s0)
    IN  IF n = 0 THEN s0
        ELSE IF s0[1] = "{"
        THEN IF s0[n] = "}" /\ n >= 2 THEN SubSeq(s0, 2, n - 1) ELSE SubSeq(s0, 2, n)
        ELSE IF n >= 9 /\ SubSeq(s0, 1, 9) = <<"u", "r", "n", ":", "u", "u", "i", "d", ":">>
        THEN SubSeq(s0, 10, n)
        ELSE s0

ValidHex(s) == Len(s) % 2 = 0 /\ \A i \in 1..Len(s) : IsHexDigit(s[i])

DigitValue(c) ==
    CASE c \in {"0", "1", "2", "3", "4", "5", "6", "7", "8", "9"} ->
            CHOOSE d \in 0..9 : hextable[d + 1] = c
      [] c \in {"a", "A"} -> 10
      [] c \in {"b", "B"} -> 11
      [] c \in {"c", "C"} -> 12
      [] c \in {"d", "D"} -> 13
      [] c \in {"e", "E"} -> 14
      [] c \in {"f", "F"} -> 15

HexBytes(s) == [i \in 1..(Len(s) \div 2) |-> 16 * DigitValue(s[2 * i - 1]) + DigitValue(s[2 * i])]

\* the three outcomes of FromString on the text src, as C1 states them
ThreeOutcomes ==
    LET s == Stripped(src)
    IN  IF ~ValidHex(s) THEN err.kind = "decode"
        ELSE IF Len(s) \div 2 # 16 THEN err.kind = "length" /\ err.n = Len(s) \div 2
        ELSE err.kind = "nil" /\ Len(u) = 16 /\ u = HexBytes(s)

\* C1: every FromString call, the empty text and the texts of dashes only
\* included, returns with a decode error, a length error carrying the decoded
\* byte count, or a buffer of exactly the 16 decoded bytes, as the stripped
\* text decides; none crashes.
C1_FromStringOutcome == op = "FromString" => ThreeOutcomes

\* C1, for the texts that keep a character once the dashes are removed
FromStringOutcomeNonEmpty ==
    (op = "FromString" /\ NoDashes(src) # <<>>) => ThreeOutcomes

\* the exact product units * 100 fits an int64, and d is that product
NoWrap(units, d) ==
    /\ NatCmp(NatMulSmall(units, 100), NatPow2(63)) < 0
    /\ NatEq(d, NatMulSmall(units, 100))

\* the nanoseconds from the 1582-10-15 epoch to the time t, when t is not
\* before it
SinceEpoch(t) ==
    NatAdd(NatMulSmall(NatMulSmall(NatMulSmall(Sub64(t.sec, UUIDTimeBase.sec), 1000), 1000), 1000),
           NatFromInt(t.nsec))

\* C2: for every tick count below 2^60 that TimeInfo computes, the loop ends
\* (after at most 13 additions), every Duration it adds is MaxDurationUnit or
\* the remainder times 100 ns without wrapping an int64, the Durations sum to
\* ticks x 100 ns, the time returned is the epoch plus exactly that, and zero
\* ticks give the epoch itself.
C2_ChunkedAdditionExact ==
    (op = "TimeInfo" /\ ret.kind = "TimeInfo" /\ NatCmp(ret.ticks, NatPow2(60)) < 0) =>
        /\ Len(ret.adds) <= 13
        /\ \A i \in 1..Len(ret.adds) :
              /\ NoWrap(ret.adds[i].units, ret.adds[i].d)
              /\ \/ ret.adds[i].units = MaxDurationUnit
                 \/ i = Len(ret.adds)
        /\ NatEq(NatSum([i \in 1..Len(ret.adds) |-> ret.adds[i].d]),
                 NatMulSmall(ret.ticks, 100))
        /\ ~Less64(ret.theTime.sec, UUIDTimeBase.sec)
        /\ ret.theTime.nsec \in 0..999999999
        /\ NatEq(SinceEpoch(ret.theTime), NatMulSmall(ret.ticks, 100))
        /\ (ret.ticks = Zero64 => ret.theTime = UUIDTimeBase)

\* a tick count that takes the most additions: twelve full steps and a rest
C2_Witness ==
    /\ op = "TimeInfo" /\ ret.kind = "TimeInfo"
    /\ Less64(MaxDurationUnit, ret.ticks)
    /\ Len(ret.adds) = 13

\* C3: parsing the text String renders from a 16-byte buffer B (uppercase
\* hex, groups of 8-4-4-4-12 digits between dashes) succeeds and gives B back
\* byte for byte.
C3_RoundTrip ==
    /\ (op = "String" /\ Len(u) = 16) =>
          /\ ret.kind = "string"
          /\ Len(ret.val) = 36
          /\ \A i \in 1..36 :
                IF i \in {9, 14, 19, 24} THEN ret.val[i] = "-"
                ELSE ret.val[i] \in {"0", "1", "2", "3", "4", "5", "6", "7", "8", "9",
                                     "A", "B", "C", "D", "E", "F"}
          /\ HexBytes(NoDashes(ret.val)) = u
    /\ (op = "FromString" /\ Len(orig) = 16 /\ src = String(orig)) =>
          err.kind = "nil" /\ u = orig

\* a buffer with a byte that renders as letters went through String and back
C3_Witness ==
    /\ op = "FromString" /\ Len(orig) = 16 /\ src = String(orig)
    /\ u = orig
    /\ \E i \in 1..16 : orig[i] >= 160

C5_MaskAgreesWithVariant ==
    (op = "MaskVariant" /\ Len(u) = 16) =>
        LET b == At(u, variantIdx)
        IN  /\ ret.kind = "byte"
            /\ Variant(u) = "VariantNCS" => ret.val = b % 128
            /\ Variant(u) = "VariantRFC4122" => ret.val = b % 64
            /\ Variant(u) \in {"VariantMicrosoft", "VariantFuture"} => ret.val = b % 32

\* byte 8 = 0xFF: three bits cleared
C5_Witness ==
    /\ op = "MaskVariant" /\ Len(u) = 16
    /\ At(u, variantIdx) = 255 /\ ret.val = 31

\* the fields of a buffer read big-endian, as natural numbers
BigEndianLow(b) == <<At(b, 3), At(b, 2), At(b, 1), At(b, 0)>>
BigEndianMid(b) == <<At(b, 5), At(b, 4)>>
BigEndianHigh(b) == <<At(b, 7), At(b, 6) % 16>>

\* C6: read big-endian, version 1 gives ticks = timeLow + timeMid x 2^32 +
\* timeHigh x 2^48 with localId = 0 and domain = 0; version 2 gives ticks =
\* timeMid x 2^32 + timeHigh x 2^48 with localId = timeLow; ticks < 2^60.
C6_BigEndianTicks ==
    (op = "TimeInfo" /\ ret.kind = "TimeInfo" /\ ~ret.le) =>
        /\ NatEq(ret.timeLow, BigEndianLow(u))
        /\ NatEq(ret.timeMid, BigEndianMid(u))
        /\ NatEq(ret.timeHigh, BigEndianHigh(u))
        /\ Version(u) = 1 =>
              /\ NatEq(ret.ticks, BigEndianLow(u) \o BigEndianMid(u) \o BigEndianHigh(u))
              /\ NatEq(ret.localID, <<>>)
              /\ ret.domain = 0
              /\ NatCmp(ret.ticks, NatPow2(60)) < 0
        /\ Version(u) = 2 =>
              /\ NatEq(ret.ticks, <<0, 0, 0, 0>> \o BigEndianMid(u) \o BigEndianHigh(u))
              /\ NatEq(ret.localID, BigEndianLow(u))
              /\ NatCmp(ret.ticks, NatPow2(60)) < 0

\* a version 2 buffer with a local id and a time, its time low not a palindrome
C6_Witness ==
    /\ op = "TimeInfo" /\ ret.kind = "TimeInfo" /\ ~ret.le
    /\ Version(u) = 2
    /\ ~NatEq(ret.localID, <<>>)
    /\ ~NatEq(ret.ticks, <<>>)
    /\ At(u, 0) # At(u, 3)

\* C7: read little-endian, all three fields take the lower-indexed byte as
\* the least significant and weigh each next byte 256 times more: timeLow =
\* byte0 + byte1 x 2^8 + byte2 x 2^16 + byte3 x 2^24, timeMid = byte4 + byte5
\* x 2^8, timeHigh = (byte6 AND 0x0F) + byte7 x 2^8.
C7_LittleEndianFields ==
    (op = "TimeInfo" /\ ret.kind = "TimeInfo" /\ ret.le) =>
        /\ NatEq(ret.timeLow, <<At(u, 0), At(u, 1), At(u, 2), At(u, 3)>>)
        /\ NatEq(ret.timeMid, <<At(u, 4), At(u, 5)>>)
        /\ NatEq(ret.timeHigh, <<At(u, 6) % 16, At(u, 7)>>)

\* C7 without time high: the two fields the little-endian read gets right
LittleEndianLowMid ==
    (op = "TimeInfo" /\ ret.kind = "TimeInfo" /\ ret.le) =>
        /\ NatEq(ret.timeLow, <<At(u, 0), At(u, 1), At(u, 2), At(u, 3)>>)
        /\ NatEq(ret.timeMid, <<At(u, 4), At(u, 5)>>)

\* C8: MacAddr returns a 6-byte copy of bytes [10,16) for versions 1 and 2,
\* and nil, never a 6-byte value, for every other version nibble (0 and 3
\* through 15).
C8_MacAddrOnlyForV1V2 ==
    (op = "MacAddr" /\ Len(u) = 16) =>
        IF Version(u) \in {1, 2}
        THEN ret.kind = "bytes" /\ ret.val = SubSeq(u, 11, 16)
        ELSE ret.kind = "nil"

\* C8 for the version nibbles other than 0
MacAddrNonZeroVersion ==
    (op = "MacAddr" /\ Len(u) = 16 /\ Version(u) # 0) =>
        IF Version(u) \in {1, 2}
        THEN ret.kind = "bytes" /\ ret.val = SubSeq(u, 11, 16)
        ELSE ret.kind = "nil"

\* C9: a text that opens with '{' once the dashes are removed is accepted
\* only if it also ends with '}'; one with no '}' at its end is rejected with
\* an error, even with 32 valid hex digits after the '{'.
C9_BraceNeedsMatch ==
    LET s0 == NoDashes(src)
    IN  (op = "FromString" /\ s0 # <<>> /\ s0[1] = "{") =>
            /\ err.kind \in {"nil", "decode", "length"}
            /\ err.kind = "nil" => s0[Len(s0)] = "}"

\* the variable holds a successfully parsed 16-byte buffer
HoldsParsed == err.kind = "nil" /\ Len(u) = 16

\* C10: once the variable holds a successfully parsed buffer, no step but a
\* successful FromString changes its length or its bytes: not the accessors,
\* not a write into a slice MacAddr or DataInfo returned, not a FromString
\* that returns an error.
C10_BufferKept ==
    [][(HoldsParsed /\ ~(op' = "FromString" /\ err'.kind = "nil")) => u' = u]_vars

\* C10 for the steps other than FromString: the accessors and the writes
\* into the returned slices
BufferKeptByReads ==
    [][(HoldsParsed /\ op' # "FromString") => u' = u]_vars

====
